---- MODULE Spec2Model ----
(***************************************************************************)
(* Model of the streaming SEARCH/REPLACE editing core of                   *)
(* sidecar/src/agentic/tool/code_edit/search_and_replace.rs:               *)
(* SearchAndReplaceAccumulator (add_delta / process_answer), the range     *)
(* resolver get_range_for_search_block, the buffer splice done when a      *)
(* block closes, and the select loop of SearchAndReplaceEditing::invoke    *)
(* that feeds the accumulator and forwards its events to the UI sink.      *)
(*                                                                         *)
(* A Rust String is a sequence of one-character strings, a Vec<String> a   *)
(* sequence of such sequences, Option<T> a sequence of length 0 (None) or  *)
(* 1 (Some(x)).  A panic of the accumulator (index out of range, usize     *)
(* underflow) is the flag `panicked`: the task that owns the accumulator   *)
(* unwinds and no further delta is processed.                              *)
(***************************************************************************)
EXTENDS Integers, Sequences, FiniteSets, TLC

(***************************************************************************)
(* Characters and literals                                                 *)
(***************************************************************************)
NL == "\n"
CR == "\r"

\* let head / divider / updated of process_answer
head == <<"<", "<", "<", "<", "<", "<", "<", " ", "S", "E", "A", "R", "C", "H">>
divider == <<"=", "=", "=", "=", "=", "=", "=">>
updated == <<">", ">", ">", ">", ">", ">", ">", " ", "R", "E", "P", "L", "A", "C", "E">>

None == <<>>
Some(x) == <<x>>

(***************************************************************************)
(* Standard-library string functions, as the code uses them                *)
(***************************************************************************)
\* <[String]>::join(sep): the elements with sep between them.
RECURSIVE join(_, _)
join(strs, sep) ==
    IF strs = <<>> THEN <<>>
    ELSE IF Len(strs) = 1 THEN strs[1]
    ELSE strs[1] \o sep \o join(Tail(strs), sep)

\* A line that was terminated by "\n" loses one "\r" right before it.
strip_cr(line) ==
    IF line # <<>> /\ line[Len(line)] = CR THEN SubSeq(line, 1, Len(line) - 1)
    ELSE line

\* str::lines(): split at "\n" (or "\r\n"); the text after the last "\n" is a
\* line only when it is not empty, so a final empty line is never produced.
lines(s) ==
    LET newlines == {i \in 1..Len(s) : s[i] = NL}
        n == Cardinality(newlines)
        \* position of the j-th "\n", 0 for j = 0
        pos(j) == IF j = 0 THEN 0
                  ELSE CHOOSE i \in newlines : Cardinality({k \in newlines : k <= i}) = j
        terminated == [j \in 1..n |-> strip_cr(SubSeq(s, pos(j - 1) + 1, pos(j) - 1))]
        rest == SubSeq(s, pos(n) + 1, Len(s))
    IN  IF rest = <<>> THEN terminated ELSE Append(terminated, rest)

\* s.chars().filter(|c| c == '\n').count() over s[..=last_index]
count_newlines(s, last_index) ==
    Cardinality({i \in 1..last_index : s[i] = NL})

(***************************************************************************)
(* Range, EditDelta, SearchBlockStatus                                     *)
(***************************************************************************)
\* Range::new(Position::new(start, 0, 0), Position::new(end, 0, 0))
Range(start, end) == [start_line |-> start, end_line |-> end]

EditStarted(range) == [type |-> "EditStarted", range |-> range]
EditDelta(range, text) == [type |-> "EditDelta", range |-> range, text |-> text]
EditEnd(range) == [type |-> "EditEnd", range |-> range]

NoBlock == [tag |-> "NoBlock"]
BlockStart == [tag |-> "BlockStart"]
BlockAccumulate(acc) == [tag |-> "BlockAccumulate", acc |-> acc]
BlockFound(acc, range) == [tag |-> "BlockFound", acc |-> acc, range |-> range]

(***************************************************************************)
(* get_last_newline_line_number                                            *)
(***************************************************************************)
\* get_last_newline_line_number with a fault: the unterminated tail counts as a
\* line too
get_last_newline_line_number_counts_tail(s) ==
    IF s = <<>> THEN None ELSE Some(Len(lines(s)))

get_last_newline_line_number(s) ==
    LET newlines == {i \in 1..Len(s) : s[i] = NL}
    IN  IF newlines = {} THEN None
        ELSE LET last_index == CHOOSE i \in newlines : \A j \in newlines : j <= i
             IN  Some(count_newlines(s, last_index))

(***************************************************************************)
(* get_range_for_search_block                                              *)
(*                                                                         *)
(* The result is [panic, range]: range is the Option<Range> returned,      *)
(* panic says that the call did not return.  usize arithmetic: with        *)
(* overflow checks `a - b` for a < b panics at the subtraction; without    *)
(* them it wraps to a value above every Vec length, and the first slice or *)
(* index taken with it panics.  Both builds end in a panic, so the model   *)
(* has the one outcome.                                                    *)
(***************************************************************************)
Returned(range) == [panic |-> FALSE, range |-> range]
Panicked == [panic |-> TRUE, range |-> None]

\* code_to_look_at_lines[i..i + search_block_len] == search_block_lines,
\* i counted from 0 as in the code
window_matches(code_to_look_at_lines, i, search_block_lines) ==
    SubSeq(code_to_look_at_lines, i + 1, i + Len(search_block_lines)) = search_block_lines

\* the loop `for i in 0..=len - search_block_len`, from index i on
RECURSIVE search_from(_, _, _, _)
search_from(code_to_look_at_lines, start_line, search_block_lines, i) ==
    LET len == Len(code_to_look_at_lines)
        search_block_len == Len(search_block_lines)
    IN  IF i > len - search_block_len THEN Returned(None)
        ELSE IF window_matches(code_to_look_at_lines, i, search_block_lines)
        THEN \* code_to_look_at_lines[i].0 and code_to_look_at_lines[i + search_block_len - 1].0
             IF i >= len \/ i + search_block_len < 1 THEN Panicked
             ELSE Returned(Some(Range(i + start_line, i + search_block_len - 1 + start_line)))
        ELSE search_from(code_to_look_at_lines, start_line, search_block_lines, i + 1)

\* the loop with a fault: it scans from the end, so the last matching window wins
RECURSIVE search_last_from(_, _, _, _)
search_last_from(code_to_look_at_lines, start_line, search_block_lines, i) ==
    LET len == Len(code_to_look_at_lines)
        search_block_len == Len(search_block_lines)
    IN  IF i < 0 THEN Returned(None)
        ELSE IF window_matches(code_to_look_at_lines, i, search_block_lines)
        THEN IF i >= len \/ i + search_block_len < 1 THEN Panicked
             ELSE Returned(Some(Range(i + start_line, i + search_block_len - 1 + start_line)))
        ELSE search_last_from(code_to_look_at_lines, start_line, search_block_lines, i - 1)

get_range_for_search_block_last(code_to_look_at, start_line, search_block) ==
    LET code_to_look_at_lines == lines(code_to_look_at)
        search_block_lines == lines(search_block)
    IN  IF Len(search_block_lines) > Len(code_to_look_at_lines) THEN Panicked
        ELSE search_last_from(code_to_look_at_lines, start_line, search_block_lines,
                              Len(code_to_look_at_lines) - Len(search_block_lines))

\* the resolver with a fault: the end of the range is exclusive, one line
\* past the matched window
get_range_for_search_block_exclusive_end(code_to_look_at, start_line, search_block) ==
    LET code_to_look_at_lines == lines(code_to_look_at)
        search_block_lines == lines(search_block)
        found == search_from(code_to_look_at_lines, start_line, search_block_lines, 0)
    IN  IF Len(search_block_lines) > Len(code_to_look_at_lines) THEN Panicked
        ELSE IF found.panic \/ found.range = None THEN found
        ELSE Returned(Some(Range(found.range[1].start_line, found.range[1].end_line + 1)))

get_range_for_search_block(code_to_look_at, start_line, search_block) ==
    LET code_to_look_at_lines == lines(code_to_look_at)
        search_block_lines == lines(search_block)
    IN  \* `code_to_look_at_lines.len() - search_block_len` underflows
        IF Len(search_block_lines) > Len(code_to_look_at_lines) THEN Panicked
        ELSE search_from(code_to_look_at_lines, start_line, search_block_lines, 0)

(***************************************************************************)
(* The buffer splice of a closing block                                    *)
(***************************************************************************)
\* self.code_lines[..n] and self.code_lines[n..], n counted from 0
slice_to(v, n) == SubSeq(v, 1, n)
slice_from(v, n) == SubSeq(v, n + 1, Len(v))

splice_code_lines(code_lines, start_line, block_range, updated_answer) ==
    LET updated_range_start_line == block_range.start_line - start_line
        updated_range_end_line == block_range.end_line - start_line
        updated_code_lines ==
            join(slice_to(code_lines, updated_range_start_line), <<NL>>)
            \o <<NL>> \o updated_answer \o <<NL>>
            \o join(slice_from(code_lines, updated_range_end_line), <<NL>>)
    IN  lines(updated_code_lines)

(***************************************************************************)
(* SearchAndReplaceAccumulator                                             *)
(***************************************************************************)
new(code_to_edit_arg, start_line_arg) ==
    [code_lines |-> lines(code_to_edit_arg),
     start_line |-> start_line_arg,
     answer_up_until_now |-> <<>>,
     previous_answer_line_number |-> None,
     search_block_status |-> NoBlock,
     updated_block |-> None,
     sender |-> <<>>,
     panicked |-> FALSE]

\* the arm with a fault: a closing marker outside a block sends an EditEnd
on_no_block_closes(self, answer_line_at_index) ==
    IF answer_line_at_index = head
    THEN [self EXCEPT !.search_block_status = BlockStart]
    ELSE IF answer_line_at_index = updated
    THEN [self EXCEPT !.sender = Append(@, EditEnd(Range(self.start_line, self.start_line)))]
    ELSE self

\* the arm with a fault: a line that starts with the head opens a block
on_no_block_prefix(self, answer_line_at_index) ==
    IF /\ Len(answer_line_at_index) >= Len(head)
       /\ SubSeq(answer_line_at_index, 1, Len(head)) = head
    THEN [self EXCEPT !.search_block_status = BlockStart]
    ELSE self

\* SearchBlockStatus::NoBlock arm
on_no_block(self, answer_line_at_index) ==
    IF answer_line_at_index = head
    THEN [self EXCEPT !.search_block_status = BlockStart]
    ELSE self

\* SearchBlockStatus::BlockStart arm
on_block_start(self, answer_line_at_index) ==
    [self EXCEPT !.search_block_status = BlockAccumulate(answer_line_at_index)]

\* SearchBlockStatus::BlockAccumulate(accumulated) arm
on_block_accumulate(self, answer_line_at_index) ==
    LET accumulated == self.search_block_status.acc
    IN  IF answer_line_at_index = divider
        THEN LET range == get_range_for_search_block(
                              join(self.code_lines, <<NL>>), self.start_line, accumulated)
             IN  IF range.panic THEN [self EXCEPT !.panicked = TRUE]
                 ELSE IF range.range # None
                 THEN [self EXCEPT
                          !.search_block_status = BlockFound(accumulated, range.range[1]),
                          !.sender = Append(@, EditStarted(range.range[1]))]
                 ELSE [self EXCEPT !.search_block_status = NoBlock]
        ELSE [self EXCEPT !.search_block_status =
                  BlockAccumulate(accumulated \o <<NL>> \o answer_line_at_index)]

\* the arm with a fault: the closing marker sends EditEnd and patches the
\* buffer, but the status stays BlockFound
on_block_found_stays_open(self, answer_line_at_index) ==
    LET block_range == self.search_block_status.range
    IN  IF answer_line_at_index = updated
        THEN [self EXCEPT
                 !.code_lines =
                     IF self.updated_block # None
                     THEN splice_code_lines(self.code_lines, self.start_line,
                                            block_range, self.updated_block[1])
                     ELSE @,
                 !.updated_block = None,
                 !.sender = Append(@, EditEnd(block_range))]
        ELSE IF self.updated_block = None
        THEN [self EXCEPT
                 !.updated_block = Some(answer_line_at_index),
                 !.sender = Append(@, EditDelta(block_range, answer_line_at_index))]
        ELSE [self EXCEPT
                 !.updated_block = Some(self.updated_block[1] \o <<NL>> \o answer_line_at_index),
                 !.sender = Append(@, EditDelta(block_range, <<NL>> \o answer_line_at_index))]

\* the arm with a fault: every Delta text is sent behind a "\n", the first too
on_block_found_newline_first(self, answer_line_at_index) ==
    LET block_range == self.search_block_status.range
    IN  IF answer_line_at_index = updated
        THEN [self EXCEPT
                 !.search_block_status = NoBlock,
                 !.code_lines =
                     IF self.updated_block # None
                     THEN splice_code_lines(self.code_lines, self.start_line,
                                            block_range, self.updated_block[1])
                     ELSE @,
                 !.updated_block = None,
                 !.sender = Append(@, EditEnd(block_range))]
        ELSE IF self.updated_block = None
        THEN [self EXCEPT
                 !.updated_block = Some(answer_line_at_index),
                 !.sender = Append(@, EditDelta(block_range, <<NL>> \o answer_line_at_index))]
        ELSE [self EXCEPT
                 !.updated_block = Some(self.updated_block[1] \o <<NL>> \o answer_line_at_index),
                 !.sender = Append(@, EditDelta(block_range, <<NL>> \o answer_line_at_index))]

\* the arm with a fault: the range of the open block grows by one line with
\* every replacement line
on_block_found_range_grows(self, answer_line_at_index) ==
    LET block_range == self.search_block_status.range
        grown == Range(block_range.start_line, block_range.end_line + 1)
    IN  IF answer_line_at_index = updated
        THEN [self EXCEPT
                 !.search_block_status = NoBlock,
                 !.code_lines =
                     IF self.updated_block # None
                     THEN splice_code_lines(self.code_lines, self.start_line,
                                            block_range, self.updated_block[1])
                     ELSE @,
                 !.updated_block = None,
                 !.sender = Append(@, EditEnd(block_range))]
        ELSE IF self.updated_block = None
        THEN [self EXCEPT
                 !.updated_block = Some(answer_line_at_index),
                 !.sender = Append(@, EditDelta(block_range, answer_line_at_index))]
        ELSE [self EXCEPT
                 !.search_block_status = BlockFound(self.search_block_status.acc, grown),
                 !.updated_block = Some(self.updated_block[1] \o <<NL>> \o answer_line_at_index),
                 !.sender = Append(@, EditDelta(grown, <<NL>> \o answer_line_at_index))]

\* the arm with a fault: a head line read in an open block abandons the block
\* and starts the next one
on_block_found_head_restarts(self, answer_line_at_index) ==
    LET block_range == self.search_block_status.range
    IN  IF answer_line_at_index = head
        THEN [self EXCEPT !.search_block_status = BlockStart, !.updated_block = None]
        ELSE IF answer_line_at_index = updated
        THEN [self EXCEPT
                 !.search_block_status = NoBlock,
                 !.code_lines =
                     IF self.updated_block # None
                     THEN splice_code_lines(self.code_lines, self.start_line,
                                            block_range, self.updated_block[1])
                     ELSE @,
                 !.updated_block = None,
                 !.sender = Append(@, EditEnd(block_range))]
        ELSE IF self.updated_block = None
        THEN [self EXCEPT
                 !.updated_block = Some(answer_line_at_index),
                 !.sender = Append(@, EditDelta(block_range, answer_line_at_index))]
        ELSE [self EXCEPT
                 !.updated_block = Some(self.updated_block[1] \o <<NL>> \o answer_line_at_index),
                 !.sender = Append(@, EditDelta(block_range, <<NL>> \o answer_line_at_index))]

\* SearchBlockStatus::BlockFound((_, block_range)) arm
\* the arm with a fault: the first replacement line is spliced into the
\* buffer at once, before the closing marker
on_block_found_patches_early(self, answer_line_at_index) ==
    LET block_range == self.search_block_status.range
    IN  IF answer_line_at_index = updated
        THEN [self EXCEPT
                 !.search_block_status = NoBlock,
                 !.code_lines =
                     IF self.updated_block # None
                     THEN splice_code_lines(self.code_lines, self.start_line,
                                            block_range, self.updated_block[1])
                     ELSE @,
                 !.updated_block = None,
                 !.sender = Append(@, EditEnd(block_range))]
        ELSE IF self.updated_block = None
        THEN [self EXCEPT
                 !.updated_block = Some(answer_line_at_index),
                 !.code_lines = splice_code_lines(self.code_lines, self.start_line,
                                                  block_range, answer_line_at_index),
                 !.sender = Append(@, EditDelta(block_range, answer_line_at_index))]
        ELSE [self EXCEPT
                 !.updated_block = Some(self.updated_block[1] \o <<NL>> \o answer_line_at_index),
                 !.sender = Append(@, EditDelta(block_range, <<NL>> \o answer_line_at_index))]

\* the arm with a fault: the closing marker leaves the pending replacement
\* in place
on_block_found_keeps_pending(self, answer_line_at_index) ==
    LET block_range == self.search_block_status.range
    IN  IF answer_line_at_index = updated
        THEN [self EXCEPT
                 !.search_block_status = NoBlock,
                 !.code_lines =
                     IF self.updated_block # None
                     THEN splice_code_lines(self.code_lines, self.start_line,
                                            block_range, self.updated_block[1])
                     ELSE @,
                 !.sender = Append(@, EditEnd(block_range))]
        ELSE IF self.updated_block = None
        THEN [self EXCEPT
                 !.updated_block = Some(answer_line_at_index),
                 !.sender = Append(@, EditDelta(block_range, answer_line_at_index))]
        ELSE [self EXCEPT
                 !.updated_block = Some(self.updated_block[1] \o <<NL>> \o answer_line_at_index),
                 !.sender = Append(@, EditDelta(block_range, <<NL>> \o answer_line_at_index))]

on_block_found(self, answer_line_at_index) ==
    LET block_range == self.search_block_status.range
    IN  IF answer_line_at_index = updated
        THEN [self EXCEPT
                 !.search_block_status = NoBlock,
                 !.code_lines =
                     IF self.updated_block # None
                     THEN splice_code_lines(self.code_lines, self.start_line,
                                            block_range, self.updated_block[1])
                     ELSE @,
                 !.updated_block = None,
                 !.sender = Append(@, EditEnd(block_range))]
        ELSE IF self.updated_block = None
        THEN [self EXCEPT
                 !.updated_block = Some(answer_line_at_index),
                 !.sender = Append(@, EditDelta(block_range, answer_line_at_index))]
        ELSE [self EXCEPT
                 !.updated_block = Some(self.updated_block[1] \o <<NL>> \o answer_line_at_index),
                 !.sender = Append(@, EditDelta(block_range, <<NL>> \o answer_line_at_index))]

\* the body of the for loop of process_answer for one line
process_line(self, line_number, answer_line_at_index) ==
    LET at == [self EXCEPT !.previous_answer_line_number = Some(line_number)]
        tag == self.search_block_status.tag
    IN  CASE tag = "NoBlock" -> on_no_block(at, answer_line_at_index)
          [] tag = "BlockStart" -> on_block_start(at, answer_line_at_index)
          [] tag = "BlockAccumulate" -> on_block_accumulate(at, answer_line_at_index)
          [] tag = "BlockFound" -> on_block_found(at, answer_line_at_index)

\* for line_number in line_number..=line_number_to_process_until (0-based)
RECURSIVE process_lines(_, _, _, _)
process_lines(self, answer_lines, line_number, line_number_to_process_until) ==
    IF line_number > line_number_to_process_until \/ self.panicked THEN self
    ELSE process_lines(process_line(self, line_number, answer_lines[line_number + 1]),
                       answer_lines, line_number + 1, line_number_to_process_until)

\* process_answer with a fault: the loop starts at line 0 on every call
process_answer_from_start(self) ==
    LET line_number_to_process == get_last_newline_line_number(self.answer_up_until_now)
    IN  IF line_number_to_process = None THEN self
        ELSE LET line_number_to_process_until == line_number_to_process[1] - 1
                 answer_lines == lines(self.answer_up_until_now)
             IN  process_lines(self, answer_lines, 0, line_number_to_process_until)

process_answer(self) ==
    LET line_number_to_process == get_last_newline_line_number(self.answer_up_until_now)
    IN  IF line_number_to_process = None THEN self
        ELSE LET line_number_to_process_until == line_number_to_process[1] - 1
                 answer_lines == lines(self.answer_up_until_now)
                 start_index == IF self.previous_answer_line_number = None THEN 0
                                ELSE self.previous_answer_line_number[1] + 1
             IN  process_lines(self, answer_lines, start_index, line_number_to_process_until)

add_delta(self, delta) ==
    process_answer([self EXCEPT !.answer_up_until_now = @ \o delta])

(***************************************************************************)
(* The inputs of one invocation                                            *)
(*                                                                         *)
(* A block is [search, repl]: the lines between head and divider and the   *)
(* lines between divider and the closing marker.  A script is the sequence *)
(* of blocks the model's answer consists of; the answer text is its        *)
(* rendering, every line terminated by "\n".                               *)
(***************************************************************************)
MaxBufLines == 2
MaxSearchLines == 2
MaxReplLines == 1
MaxStreamLines == 9
MaxRawLines == 5

A == <<"a">>
B == <<"b">>
Blank == <<>>

BufContent == {A, Blank}
SearchContent == {A, B, Blank}
ReplContent == {B, Blank}
Anchors == {0, 5}

DefFoo == <<"d", "e", "f", " ", "f", "o", "o", "(", ")", ":">>
Return1 == <<" ", " ", " ", " ", "r", "e", "t", "u", "r", "n", " ", "1">>
Return2 == <<" ", " ", " ", " ", "r", "e", "t", "u", "r", "n", " ", "2">>
Return3 == <<" ", " ", " ", " ", "r", "e", "t", "u", "r", "n", " ", "3">>
Return99 == <<" ", " ", " ", " ", "r", "e", "t", "u", "r", "n", " ", "9", "9">>

SeqsOf(S, lo, hi) == UNION {[1..n -> S] : n \in lo..hi}

Block(search, repl) == [search |-> search, repl |-> repl]
block_lines(b) == <<head>> \o b.search \o <<divider>> \o b.repl \o <<updated>>

RECURSIVE script_lines(_)
script_lines(script) ==
    IF script = <<>> THEN <<>>
    ELSE block_lines(Head(script)) \o script_lines(Tail(script))

RECURSIVE render(_)
render(ls) == IF ls = <<>> THEN <<>> ELSE Head(ls) \o <<NL>> \o render(Tail(ls))

Blocks ==
    {Block(s, r) : s \in SeqsOf(SearchContent, 0, MaxSearchLines),
                   r \in SeqsOf(ReplContent, 0, MaxReplLines)}

RECURSIVE ScriptsWithin(_)
ScriptsWithin(n) ==
    {<<>>} \cup
    UNION {{<<b>> \o rest : rest \in ScriptsWithin(n - Len(block_lines(b)))} :
           b \in {c \in Blocks : Len(block_lines(c)) <= n}}

\* generated inputs, delivered one whole line per delta
LineConfigs ==
    {[code_to_edit |-> render(buf), start_line |-> anchor, script |-> sc,
      text |-> render(script_lines(sc)), chunking |-> "lines"] :
        buf \in SeqsOf(BufContent, 0, MaxBufLines), anchor \in Anchors,
        sc \in ScriptsWithin(MaxStreamLines)}

\* Scenario A, Scenario B followed by a resolvable block, and two dependent
\* blocks
ScenarioCode == DefFoo \o <<NL>> \o Return1
ScenarioA == <<Block(<<Return1>>, <<Return2>>)>>
ScenarioB == <<Block(<<Return99>>, <<Return2>>), Block(<<Return1>>, <<Return3>>)>>
ScenarioTwo == <<Block(<<Return1>>, <<Return2>>), Block(<<Return2>>, <<Return3>>)>>
\* a replacement of three lines, the middle one empty
ScenarioMultiLine == <<Block(<<Return1>>, <<Return2, Blank, Return3>>)>>

\* the answer of a script, and the same answer with its last "\n" not yet there
Answers(sc) ==
    LET whole == render(script_lines(sc))
    IN  {whole} \cup (IF whole = <<>> THEN {} ELSE {SubSeq(whole, 1, Len(whole) - 1)})

\* inputs delivered in fragments of every length: the scenarios, and every
\* answer of at most one block against the buffer [a, blank line]
CharConfigs ==
    {[code_to_edit |-> ScenarioCode, start_line |-> 10, script |-> sc,
      text |-> render(script_lines(sc)), chunking |-> "any"] :
        sc \in {ScenarioA, ScenarioB, ScenarioTwo, ScenarioMultiLine}}
    \cup
    UNION {{[code_to_edit |-> render(buf), start_line |-> 5, script |-> sc,
             text |-> t, chunking |-> "any"] : t \in Answers(sc)} :
           buf \in {<<A, Blank>>},
           sc \in {x \in ScriptsWithin(MaxStreamLines) : Len(x) <= 1}}

\* the head marker followed by a space: a line that is not a marker
HeadSpace == head \o <<" ">>

\* answers that are no sequence of blocks: every sequence of at most
\* MaxRawLines lines, each a marker, the line "a" or the head followed by a
\* space, one line per delta
RawLines == {head, divider, updated, A, HeadSpace}

RawConfigs ==
    {[code_to_edit |-> render(<<A, Blank>>), start_line |-> 5, script |-> <<>>,
      text |-> render(ls), chunking |-> "lines"] :
        ls \in SeqsOf(RawLines, 1, MaxRawLines)}

Configs == LineConfigs \cup CharConfigs \cup RawConfigs

(***************************************************************************)
(* State                                                                   *)
(***************************************************************************)
VARIABLES
    code_lines, start_line, answer_up_until_now, previous_answer_line_number,
    search_block_status, updated_block,   \* fields of SearchAndReplaceAccumulator
    sender,             \* the EditDelta values sent on the edit channel, in order
    panicked,           \* the accumulator's task has panicked
    code_to_edit,       \* the text the accumulator was constructed with
    script,             \* the blocks of the model's answer
    pending,            \* the part of the answer not yet delivered
    chunking,           \* how the answer is cut into deltas: "any" or "lines"
    cut_inside_line,    \* some delta so far ended inside a line
    receiver,           \* the messages in the delta channel, oldest first
    receiver_closed,    \* the completion stream has dropped the channel's sender
    empty_messages,     \* the messages without a delta sent so far
    llm_response,       \* the future of the completion: pending or ready
    edits_taken,        \* how many of the events in `sender` edits_receiver gave out
    ui_sender,          \* the messages sent to the UI sink, in order
    stream_result,      \* the local of invoke: Option of the future's result
    invoke_result       \* what invoke returned, None while it runs

acc_vars == <<code_lines, start_line, answer_up_until_now, previous_answer_line_number,
              search_block_status, updated_block, sender, panicked>>
env_vars == <<code_to_edit, script, pending, chunking, cut_inside_line>>
loop_vars == <<receiver, receiver_closed, empty_messages, llm_response, edits_taken,
               ui_sender, stream_result, invoke_result>>
vars == <<acc_vars, env_vars, loop_vars>>

Self ==
    [code_lines |-> code_lines,
     start_line |-> start_line,
     answer_up_until_now |-> answer_up_until_now,
     previous_answer_line_number |-> previous_answer_line_number,
     search_block_status |-> search_block_status,
     updated_block |-> updated_block,
     sender |-> sender,
     panicked |-> panicked]

SetSelf(next) ==
    /\ code_lines' = next.code_lines
    /\ start_line' = next.start_line
    /\ answer_up_until_now' = next.answer_up_until_now
    /\ previous_answer_line_number' = next.previous_answer_line_number
    /\ search_block_status' = next.search_block_status
    /\ updated_block' = next.updated_block
    /\ sender' = next.sender
    /\ panicked' = next.panicked

\* the future of the completion stream
Pending == [state |-> "Pending"]
Ready(result) == [state |-> "Ready", result |-> result]

\* Result<String, _> of the completion, Result<ToolOutput, ToolError> of invoke
Ok(response) == [ok |-> TRUE, response |-> response]
Err(error) == [ok |-> FALSE, error |-> error]

\* invoke up to the loop: both channels empty, the future created and not
\* polled, the accumulator constructed from the code in the selection
EnterLoop(cfg) ==
    LET self == new(cfg.code_to_edit, cfg.start_line)
    IN  /\ code_lines = self.code_lines
        /\ start_line = self.start_line
        /\ answer_up_until_now = self.answer_up_until_now
        /\ previous_answer_line_number = self.previous_answer_line_number
        /\ search_block_status = self.search_block_status
        /\ updated_block = self.updated_block
        /\ sender = self.sender
        /\ panicked = self.panicked
        /\ code_to_edit = cfg.code_to_edit
        /\ script = cfg.script
        /\ pending = cfg.text
        /\ chunking = cfg.chunking
        /\ cut_inside_line = FALSE
        /\ receiver = <<>>
        /\ receiver_closed = FALSE
        /\ empty_messages = 0
        /\ llm_response = Pending
        /\ edits_taken = 0
        /\ ui_sender = <<>>
        /\ stream_result = None
        /\ invoke_result = None

Init == \E cfg \in Configs : EnterLoop(cfg)

\* the length of the first line of s with its "\n", or of s when it has none
first_line_len(s) ==
    LET newlines == {i \in 1..Len(s) : s[i] = NL}
    IN  IF newlines = {} THEN Len(s)
        ELSE CHOOSE i \in newlines : \A j \in newlines : i <= j

FragmentLengths ==
    IF chunking = "any" THEN 1..Len(pending)
    ELSE IF pending = <<>> THEN {}
    ELSE {first_line_len(pending)}

\* the loop receives the next delta of the model's answer and feeds it to the
\* accumulator: search_and_replace_accumulator.add_delta(delta)
AddDelta(n) ==
    /\ ~panicked
    /\ LET delta == SubSeq(pending, 1, n)
       IN  /\ SetSelf(add_delta(Self, delta))
           /\ pending' = SubSeq(pending, n + 1, Len(pending))
           /\ cut_inside_line' = (cut_inside_line \/ delta[n] # NL)
    /\ UNCHANGED <<code_to_edit, script, chunking>>
    /\ UNCHANGED loop_vars

Next == \E n \in FragmentLengths : AddDelta(n)

Spec == Init /\ [][Next]_vars

(***************************************************************************)
(* The select loop of SearchAndReplaceEditing::invoke                      *)
(*                                                                         *)
(* One task selects among three sources: the delta channel `receiver`, the *)
(* accumulator's edit channel `edits_receiver` and the future              *)
(* `llm_response`.  select! takes any one of the branches that are ready.  *)
(* The completion stream is the other end: it sends messages on the delta  *)
(* channel and resolves the future with the whole answer or with an error. *)
(* The events the accumulator sent are `sender`; the first `edits_taken`   *)
(* of them have been received by the loop, the others are queued.          *)
(***************************************************************************)
MaxEmptyMessages == 1

\* the character U+0060 of the code fence, which a TLA+ string cannot hold
BACKTICK == "U+0060"
fence_open == <<BACKTICK, BACKTICK, BACKTICK, NL>>
fence_close == <<NL, BACKTICK, BACKTICK, BACKTICK>>

\* UIEventWithID::start_edit_streaming, delta_edit_streaming, end_edit_streaming
\* (the ids and the file path are the same in every message of an invocation)
start_edit_streaming(range) == [kind |-> "start", range |-> range]
delta_edit_streaming(delta, range) == [kind |-> "delta", range |-> range, delta |-> delta]
end_edit_streaming(range) == [kind |-> "end", range |-> range]

\* the branch with a fault: for EditEnd the end message goes out before the
\* closing fence
ui_messages_end_first(edits_response) ==
    CASE edits_response.type = "EditStarted" ->
            <<start_edit_streaming(edits_response.range),
              delta_edit_streaming(fence_open, edits_response.range)>>
      [] edits_response.type = "EditDelta" ->
            <<delta_edit_streaming(edits_response.text, edits_response.range)>>
      [] edits_response.type = "EditEnd" ->
            <<end_edit_streaming(edits_response.range),
              delta_edit_streaming(fence_close, edits_response.range)>>

\* what the edits_receiver branch sends to the UI sink for one event
ui_messages(edits_response) ==
    CASE edits_response.type = "EditStarted" ->
            <<start_edit_streaming(edits_response.range),
              delta_edit_streaming(fence_open, edits_response.range)>>
      [] edits_response.type = "EditDelta" ->
            <<delta_edit_streaming(edits_response.text, edits_response.range)>>
      [] edits_response.type = "EditEnd" ->
            <<delta_edit_streaming(fence_close, edits_response.range),
              end_edit_streaming(edits_response.range)>>

\* match stream_result { Some(Ok(response)) => Ok(..), _ => Err(RetriesExhausted) }
invoke_return(result) ==
    IF result # None /\ result[1].ok THEN Ok(result[1].response)
    ELSE Err("RetriesExhausted")

\* an answer that ends inside a found block (Scenario C), and a block whose
\* search section is longer than the code in the selection
ScenarioC == <<head, Return1, divider, Return2>>
ScenarioLong == <<Block(<<DefFoo, Return1, Return2>>, <<Return3>>)>>

\* the answer of Scenario A with the "\n" of its closing marker missing
ScenarioAUnterminated ==
    SubSeq(render(script_lines(ScenarioA)), 1, Len(render(script_lines(ScenarioA))) - 1)

LoopConfigs ==
    {[code_to_edit |-> ScenarioCode, start_line |-> 10, script |-> sc,
      text |-> render(script_lines(sc)), chunking |-> "lines"] :
        sc \in {ScenarioA, ScenarioB, ScenarioTwo, ScenarioMultiLine, ScenarioLong}}
    \cup
    {[code_to_edit |-> ScenarioCode, start_line |-> 10, script |-> <<>>,
      text |-> render(ScenarioC), chunking |-> "lines"],
     [code_to_edit |-> ScenarioCode, start_line |-> 10, script |-> ScenarioA,
      text |-> ScenarioAUnterminated, chunking |-> "lines"]}

LoopInit == \E cfg \in LoopConfigs : EnterLoop(cfg)

\* the task is inside the loop: invoke has not returned and has not panicked
Running == invoke_result = None /\ ~panicked

\* the deltas of the queued messages, concatenated
RECURSIVE deltas_text(_)
deltas_text(msgs) ==
    IF msgs = <<>> THEN <<>>
    ELSE (IF Head(msgs) = None THEN <<>> ELSE Head(msgs)[1]) \o deltas_text(Tail(msgs))

\* the completion stream sends the next fragment of the answer
StreamSend(n) ==
    /\ Running /\ llm_response = Pending /\ ~receiver_closed
    /\ receiver' = Append(receiver, Some(SubSeq(pending, 1, n)))
    /\ pending' = SubSeq(pending, n + 1, Len(pending))
    /\ UNCHANGED <<acc_vars, code_to_edit, script, chunking, cut_inside_line,
                   receiver_closed, empty_messages, llm_response, edits_taken,
                   ui_sender, stream_result, invoke_result>>

\* the completion stream sends a message that carries no delta
StreamSendEmpty ==
    /\ Running /\ llm_response = Pending /\ ~receiver_closed
    /\ empty_messages < MaxEmptyMessages
    /\ receiver' = Append(receiver, None)
    /\ empty_messages' = empty_messages + 1
    /\ UNCHANGED <<acc_vars, env_vars, receiver_closed, llm_response, edits_taken,
                   ui_sender, stream_result, invoke_result>>

\* the completion stream drops its sender without resolving
StreamClose ==
    /\ Running /\ llm_response = Pending /\ ~receiver_closed
    /\ receiver_closed' = TRUE
    /\ UNCHANGED <<acc_vars, env_vars, receiver, empty_messages, llm_response,
                   edits_taken, ui_sender, stream_result, invoke_result>>

\* the results the completion can resolve with now: the whole answer once
\* all of it is sent, an error at any time
StreamResults ==
    {Err("LLMClientError")}
    \cup (IF pending = <<>> THEN {Ok(answer_up_until_now \o deltas_text(receiver))} ELSE {})

\* the completion resolves; its sender is dropped with it
StreamResolve(result) ==
    /\ Running /\ llm_response = Pending
    /\ llm_response' = Ready(result)
    /\ receiver_closed' = TRUE
    /\ UNCHANGED <<acc_vars, env_vars, receiver, empty_messages, edits_taken,
                   ui_sender, stream_result, invoke_result>>

\* the branch with a fault: it feeds the oldest message and throws away the
\* one behind it
RecvMessageDropsNext ==
    /\ Running /\ receiver # <<>>
    /\ LET delta == Head(receiver)
       IN  IF delta # None THEN SetSelf(add_delta(Self, delta[1]))
           ELSE UNCHANGED acc_vars
    /\ receiver' = IF Len(receiver) >= 2 THEN Tail(Tail(receiver)) ELSE <<>>
    /\ UNCHANGED <<env_vars, receiver_closed, empty_messages, llm_response,
                   edits_taken, ui_sender, stream_result, invoke_result>>

\* stream_msg = receiver.recv() => Some(msg)
RecvMessage ==
    /\ Running /\ receiver # <<>>
    /\ LET delta == Head(receiver)
       IN  IF delta # None THEN SetSelf(add_delta(Self, delta[1]))
           ELSE UNCHANGED acc_vars
    /\ receiver' = Tail(receiver)
    /\ UNCHANGED <<env_vars, receiver_closed, empty_messages, llm_response,
                   edits_taken, ui_sender, stream_result, invoke_result>>

\* the arm with a fault: a closed delta channel ends the loop with an error
RecvClosedBreaks ==
    /\ Running /\ receiver = <<>> /\ receiver_closed
    /\ invoke_result' = Some(Err("RetriesExhausted"))
    /\ UNCHANGED <<acc_vars, env_vars, receiver, receiver_closed, empty_messages,
                   llm_response, edits_taken, ui_sender, stream_result>>

\* the arm with a fault: on a closed channel it flushes the accumulator,
\* terminating an unfinished last line
RecvClosedFlushes ==
    /\ Running /\ receiver = <<>> /\ receiver_closed
    /\ IF answer_up_until_now # <<>> /\ answer_up_until_now[Len(answer_up_until_now)] # NL
       THEN SetSelf(add_delta(Self, <<NL>>))
       ELSE UNCHANGED acc_vars
    /\ UNCHANGED <<env_vars, loop_vars>>

\* stream_msg = receiver.recv() => None: the arm is empty, the loop goes on
RecvClosed ==
    /\ Running /\ receiver = <<>> /\ receiver_closed
    /\ UNCHANGED vars

\* the branch with a fault: it takes the newest queued event, not the oldest
RecvEditNewestFirst ==
    /\ Running /\ edits_taken < Len(sender)
    /\ ui_sender' = ui_sender \o ui_messages(sender[Len(sender)])
    /\ edits_taken' = edits_taken + 1
    /\ UNCHANGED <<acc_vars, env_vars, receiver, receiver_closed, empty_messages,
                   llm_response, stream_result, invoke_result>>

\* edits_response = edits_receiver.recv() => Some(event)
RecvEdit ==
    /\ Running /\ edits_taken < Len(sender)
    /\ ui_sender' = ui_sender \o ui_messages(sender[edits_taken + 1])
    /\ edits_taken' = edits_taken + 1
    /\ UNCHANGED <<acc_vars, env_vars, receiver, receiver_closed, empty_messages,
                   llm_response, stream_result, invoke_result>>

\* the branch with a fault: before it breaks it forwards the edit event that
\* waits at the head of the edit channel
TerminalBranchForwardsQueued ==
    /\ Running /\ llm_response.state = "Ready"
    /\ stream_result' = Some(llm_response.result)
    /\ invoke_result' = Some(invoke_return(Some(llm_response.result)))
    /\ IF edits_taken < Len(sender)
       THEN /\ ui_sender' = ui_sender \o ui_messages(sender[edits_taken + 1])
            /\ edits_taken' = edits_taken + 1
       ELSE UNCHANGED <<ui_sender, edits_taken>>
    /\ UNCHANGED <<acc_vars, env_vars, receiver, receiver_closed, empty_messages,
                   llm_response>>

\* the branch with a fault: it is not taken while a block is open
TerminalBranchWaitsForEnd ==
    /\ Running /\ llm_response.state = "Ready"
    /\ search_block_status.tag # "BlockFound"
    /\ stream_result' = Some(llm_response.result)
    /\ invoke_result' = Some(invoke_return(Some(llm_response.result)))
    /\ UNCHANGED <<acc_vars, env_vars, receiver, receiver_closed, empty_messages,
                   llm_response, edits_taken, ui_sender>>

\* result = &mut llm_response => { stream_result = Some(result); break; }
\* and the match behind the loop
TerminalBranch ==
    /\ Running /\ llm_response.state = "Ready"
    /\ stream_result' = Some(llm_response.result)
    /\ invoke_result' = Some(invoke_return(Some(llm_response.result)))
    /\ UNCHANGED <<acc_vars, env_vars, receiver, receiver_closed, empty_messages,
                   llm_response, edits_taken, ui_sender>>

LoopNext ==
    \/ \E n \in FragmentLengths : StreamSend(n)
    \/ StreamSendEmpty
    \/ StreamClose
    \/ \E result \in StreamResults : StreamResolve(result)
    \/ RecvMessage
    \/ RecvClosed
    \/ RecvEdit
    \/ TerminalBranch

LoopSpec == LoopInit /\ [][LoopNext]_vars

\* select! takes a branch at random among the ready ones: a branch that stays
\* ready is taken in the end.  Nothing obliges the completion stream to send
\* or to resolve.
\* RecvMessage is enabled exactly when the task runs and a message is queued,
\* and it is the only step that shortens the queue: this is WF_vars(RecvMessage)
\* with ENABLED and the step written out
RecvMessageEnabled == Running /\ receiver # <<>>
RecvMessageFair ==
    \/ []<>(~RecvMessageEnabled)
    \/ []<><<Len(receiver') < Len(receiver)>>_vars

FairLoopSpec ==
    /\ LoopSpec
    /\ RecvMessageFair
    /\ WF_vars(RecvEdit)
    /\ WF_vars(TerminalBranch)

(***************************************************************************)
(* Vocabulary of the properties                                            *)
(***************************************************************************)
\* the buffer the accumulator was constructed with
OriginalBuffer == lines(code_to_edit)

\* the 0-based indices i with buf[i .. i+k) equal to cand, line for line
occurrences(buf, cand) ==
    {i \in 0..(Len(buf) - Len(cand)) : SubSeq(buf, i + 1, i + Len(cand)) = cand}

occurs(buf, cand) == occurrences(buf, cand) # {}

first_occurrence(buf, cand) ==
    CHOOSE i \in occurrences(buf, cand) : \A j \in occurrences(buf, cand) : i <= j

\* the absolute range of the k lines from local index i on
abs_range(i, k) == Range(i + start_line, i + k - 1 + start_line)

\* a block with at least one search line (the content lines hold no marker)
well_formed(b) == Len(b.search) >= 1

\* a well-formed block whose search section does not end in a blank line
plain(b) == well_formed(b) /\ b.search[Len(b.search)] # <<>>

\* the text cut at every "\n": n newlines give n + 1 pieces, empty ones kept
split_nl(text) ==
    LET newlines == {i \in 1..Len(text) : text[i] = NL}
        n == Cardinality(newlines)
        pos(j) == IF j = 0 THEN 0
                  ELSE IF j = n + 1 THEN Len(text) + 1
                  ELSE CHOOSE i \in newlines : Cardinality({k \in newlines : k <= i}) = j
    IN  [j \in 1..(n + 1) |-> SubSeq(text, pos(j - 1) + 1, pos(j) - 1)]

\* doc with the lines of the inclusive absolute range replaced by repl_lines
replace_range(doc, range, repl_lines) ==
    SubSeq(doc, 1, range.start_line - start_line)
    \o repl_lines
    \o SubSeq(doc, range.end_line - start_line + 2, Len(doc))

range_inside(doc, range) ==
    /\ start_line <= range.start_line
    /\ range.start_line <= range.end_line
    /\ range.end_line - start_line < Len(doc)

\* the events of one resolved block: Started, one Delta per replacement line
\* (the first as it is, the later ones behind a "\n"), Ended
block_events(range, repl) ==
    <<EditStarted(range)>>
    \o [j \in 1..Len(repl) |->
            EditDelta(range, IF j = 1 THEN repl[j] ELSE <<NL>> \o repl[j])]
    \o <<EditEnd(range)>>

\* the number of lines of the answer handed to the transition table so far
lines_processed ==
    IF previous_answer_line_number = None THEN 0
    ELSE previous_answer_line_number[1] + 1

\* this step delivers exactly the line l, after line-aligned text
DeliversLine(l) ==
    /\ answer_up_until_now = <<>> \/ answer_up_until_now[Len(answer_up_until_now)] = NL
    /\ answer_up_until_now' = answer_up_until_now \o l \o <<NL>>

\* the answer is the script's blocks, its last line terminated
StreamIsScript == answer_up_until_now \o pending = render(script_lines(script))

IsScenarioA ==
    /\ StreamIsScript
    /\ code_to_edit = ScenarioCode
    /\ start_line = 10
    /\ script = ScenarioA

(***************************************************************************)
(* C1  Chunking-invariance: whatever fragments the answer was delivered    *)
(* in, the accumulator (events sent, buffer, parser state, every field) is *)
(* what one add_delta call with the whole delivered text produces.         *)
(***************************************************************************)
C1_ChunkingInvariance ==
    Self = add_delta(new(code_to_edit, start_line), answer_up_until_now)

\* a whole answer delivered in fragments, one of them cut inside a line,
\* with a complete block's events sent
C1_Witness ==
    /\ chunking = "any"
    /\ cut_inside_line
    /\ pending = <<>>
    /\ Len(sender) >= 3
    /\ sender[Len(sender)].type = "EditEnd"

(***************************************************************************)
(* C2  A stream of one well-formed block whose search text occurs in the   *)
(* buffer makes the accumulator send exactly Started(r), one Delta(r, .)   *)
(* per replacement line, Ended(r), r being the absolute range of the       *)
(* match; in Scenario A the events are Started(11,11),                     *)
(* Delta((11,11), "    return 2"), Ended(11,11).                           *)
(***************************************************************************)
C2_SingleBlockEvents ==
    /\ (StreamIsScript /\ Len(script) = 1 /\ well_formed(script[1])
            /\ occurs(OriginalBuffer, script[1].search))
        => LET b == script[1]
               r == abs_range(first_occurrence(OriginalBuffer, b.search), Len(b.search))
               n == Len(b.repl)
           IN  /\ ~panicked
               /\ pending = <<>> =>
                    /\ Len(sender) = n + 2
                    /\ sender[1] = EditStarted(r)
                    /\ \A j \in 2..(n + 1) :
                          sender[j].type = "EditDelta" /\ sender[j].range = r
                    /\ sender[n + 2] = EditEnd(r)
    /\ (IsScenarioA /\ pending = <<>>)
        => sender = <<EditStarted(Range(11, 11)),
                      EditDelta(Range(11, 11), Return2),
                      EditEnd(Range(11, 11))>>

(***************************************************************************)
(* C3  Scenario A: once the closing marker is processed the buffer is      *)
(* ["def foo():", "    return 2"].                                         *)
(***************************************************************************)
C3_ScenarioAFinalBuffer ==
    (IsScenarioA /\ pending = <<>>) => code_lines = <<DefFoo, Return2>>

(***************************************************************************)
(* C4  When a block with range (s, e) and replacement lines R closes, the  *)
(* new buffer is old[0 .. s-anchor) ++ R ++ old(e-anchor .. end].          *)
(***************************************************************************)
C4_SpliceIsExact ==
    [][(/\ search_block_status.tag = "BlockFound"
        /\ DeliversLine(updated))
       => code_lines' =
            replace_range(code_lines, search_block_status.range,
                          IF updated_block = None THEN <<>>
                          ELSE split_nl(updated_block[1]))]_vars

(***************************************************************************)
(* C5  Round-trip: the original document with every completed block's      *)
(* (range, concatenated Delta texts) applied in emission order, as an      *)
(* inclusive line-range replacement, is the accumulator's buffer.          *)
(***************************************************************************)
NoEdit == [has |-> FALSE, text |-> <<>>]

\* the events from index i on applied to res = [ok, doc]; cur collects the
\* Delta texts of the block that is open
RECURSIVE replay(_, _, _)
replay(res, i, cur) ==
    IF i > Len(sender) \/ ~res.ok THEN res
    ELSE LET ev == sender[i]
         IN  CASE ev.type = "EditStarted" -> replay(res, i + 1, NoEdit)
               [] ev.type = "EditDelta" ->
                    replay(res, i + 1, [has |-> TRUE, text |-> cur.text \o ev.text])
               [] ev.type = "EditEnd" ->
                    IF range_inside(res.doc, ev.range)
                    THEN replay([ok |-> TRUE,
                                 doc |-> replace_range(res.doc, ev.range,
                                            IF cur.has THEN split_nl(cur.text) ELSE <<>>)],
                                i + 1, NoEdit)
                    ELSE [ok |-> FALSE, doc |-> res.doc]

C5_RoundTrip ==
    LET res == replay([ok |-> TRUE, doc |-> OriginalBuffer], 1, NoEdit)
    IN  res.ok /\ res.doc = code_lines

(***************************************************************************)
(* C6  Patch-before-next-search: a second block whose search text exists   *)
(* only in the first block's replacement resolves, to the absolute         *)
(* position that text has in the original document with the first edit     *)
(* applied.  Stated for blocks whose search sections end in a non-blank    *)
(* line.                                                                   *)
(***************************************************************************)
C6_PatchBeforeNextSearch ==
    (/\ StreamIsScript
     /\ Len(script) = 2
     /\ plain(script[1]) /\ plain(script[2])
     /\ occurs(OriginalBuffer, script[1].search)
     /\ ~occurs(OriginalBuffer, script[2].search)
     /\ occurs(replace_range(OriginalBuffer,
                   abs_range(first_occurrence(OriginalBuffer, script[1].search),
                             Len(script[1].search)),
                   script[1].repl),
               script[2].search))
    => LET b1 == script[1]
           b2 == script[2]
           doc1 == replace_range(OriginalBuffer,
                       abs_range(first_occurrence(OriginalBuffer, b1.search), Len(b1.search)),
                       b1.repl)
           r2 == abs_range(first_occurrence(doc1, b2.search), Len(b2.search))
       IN  /\ ~panicked
           /\ pending = <<>> =>
                /\ Len(sender) >= Len(b1.repl) + 3
                /\ sender[Len(b1.repl) + 3] = EditStarted(r2)

(***************************************************************************)
(* C7  UnresolvedBlock: while a block whose search text matches no window  *)
(* of the buffer is read, no event is sent and the buffer does not         *)
(* change.                                                                 *)
(***************************************************************************)
C7_UnresolvedBlockIsSilent ==
    (/\ StreamIsScript
     /\ Len(script) >= 1
     /\ well_formed(script[1])
     /\ ~occurs(OriginalBuffer, script[1].search)
     /\ lines_processed <= Len(block_lines(script[1])))
    => /\ sender = <<>>
       /\ code_lines = OriginalBuffer

(***************************************************************************)
(* C8  After an unresolved block the parser is in NoBlock, and a following *)
(* well-formed block whose search text is present sends Started, its       *)
(* Deltas and Ended as if the unresolved block had not been there.  Stated *)
(* for blocks whose search sections end in a non-blank line.               *)
(***************************************************************************)
C8_ReadyAfterUnresolved ==
    (/\ StreamIsScript
     /\ Len(script) = 2
     /\ plain(script[1]) /\ plain(script[2])
     /\ ~occurs(OriginalBuffer, script[1].search)
     /\ occurs(OriginalBuffer, script[2].search))
    => LET b2 == script[2]
           r == abs_range(first_occurrence(OriginalBuffer, b2.search), Len(b2.search))
       IN  /\ ~panicked
           /\ lines_processed = Len(block_lines(script[1])) => search_block_status = NoBlock
           /\ pending = <<>> => sender = block_events(r, b2.repl)

(***************************************************************************)
(* C9  RangeResolver: when the divider closes a candidate of k >= 1 lines  *)
(* of which some window of the buffer is a copy, the block is found with   *)
(* the range (i + anchor, i + k - 1 + anchor), i being the smallest index  *)
(* of a matching window.                                                   *)
(***************************************************************************)
\* the buffer and the candidate as get_range_for_search_block is given them
ResolverBuffer == lines(join(code_lines, <<NL>>))
ResolverCandidate == lines(search_block_status.acc)

C9_FirstWindowWins ==
    [][(/\ search_block_status.tag = "BlockAccumulate"
        /\ DeliversLine(divider)
        /\ Len(ResolverCandidate) >= 1
        /\ occurs(ResolverBuffer, ResolverCandidate))
       => search_block_status' =
            BlockFound(search_block_status.acc,
                       abs_range(first_occurrence(ResolverBuffer, ResolverCandidate),
                                 Len(ResolverCandidate)))]_vars

\* a block found in a buffer that holds its search text twice, away from
\* line 0 of the file
C9_Witness ==
    /\ search_block_status.tag = "BlockFound"
    /\ Cardinality(occurrences(ResolverBuffer, ResolverCandidate)) >= 2
    /\ search_block_status.range =
         abs_range(first_occurrence(ResolverBuffer, ResolverCandidate),
                   Len(ResolverCandidate))
    /\ start_line > 0

(***************************************************************************)
(* C10  A candidate with more lines than the buffer is an ordinary "no     *)
(* match": the divider leaves the parser in NoBlock, sends nothing and     *)
(* does not abort the accumulator.                                         *)
(***************************************************************************)
C10_LongCandidateIsNoMatch ==
    [][(/\ search_block_status.tag = "BlockAccumulate"
        /\ DeliversLine(divider)
        /\ Len(ResolverCandidate) > Len(ResolverBuffer))
       => /\ ~panicked'
          /\ search_block_status' = NoBlock
          /\ sender' = sender]_vars

(***************************************************************************)
(* C11  The events sent are well bracketed: every Delta(r, .) and every    *)
(* Ended(r) comes after a Started(r) of the same range that has not been   *)
(* ended yet, no Started comes between a Started and its Ended, and the    *)
(* Delta of a replacement line is sent when that line arrives, behind      *)
(* every event sent before.                                                *)
(***************************************************************************)
\* the index of the last Started before position j of evs, 0 when none
last_started(evs, j) ==
    LET started == {i \in 1..(j - 1) : evs[i].type = "EditStarted"}
    IN  IF started = {} THEN 0
        ELSE CHOOSE i \in started : \A k \in started : k <= i

\* a block is open before position j: a Started with no Ended after it
open_before(evs, j) ==
    LET s == last_started(evs, j)
    IN  s # 0 /\ \A i \in (s + 1)..(j - 1) : evs[i].type # "EditEnd"

well_bracketed(evs) ==
    \A j \in 1..Len(evs) :
        IF evs[j].type = "EditStarted" THEN ~open_before(evs, j)
        ELSE open_before(evs, j) /\ evs[j].range = evs[last_started(evs, j)].range

\* the last line of the answer, without its "\n"
last_line(answer) == LET ls == lines(answer) IN ls[Len(ls)]

\* this step delivers exactly one whole line, after line-aligned text
DeliversOneLine ==
    /\ answer_up_until_now = <<>> \/ answer_up_until_now[Len(answer_up_until_now)] = NL
    /\ Len(answer_up_until_now') > Len(answer_up_until_now)
    /\ answer_up_until_now'[Len(answer_up_until_now')] = NL
    /\ \A i \in (Len(answer_up_until_now) + 1)..(Len(answer_up_until_now') - 1) :
          answer_up_until_now'[i] # NL

C11_DeltaOnArrival ==
    (/\ DeliversOneLine
     /\ search_block_status.tag = "BlockFound"
     /\ last_line(answer_up_until_now') # updated)
    => /\ Len(sender') = Len(sender) + 1
       /\ SubSeq(sender', 1, Len(sender)) = sender
       /\ sender'[Len(sender')].type = "EditDelta"
       /\ sender'[Len(sender')].text \in
            {last_line(answer_up_until_now'), <<NL>> \o last_line(answer_up_until_now')}

C11_EventsWellBracketed ==
    /\ [](well_bracketed(sender))
    /\ [][C11_DeltaOnArrival]_vars

\* two blocks with a Delta each were opened and closed one after the other
C11_Witness ==
    /\ Len(sender) = 6
    /\ sender[3].type = "EditEnd"
    /\ sender[4].type = "EditStarted"
    /\ sender[5].type = "EditDelta"
    /\ sender[6].type = "EditEnd"

(***************************************************************************)
(* C12  While a block is open, the Delta texts sent for it, concatenated,  *)
(* are its replacement lines so far joined by single "\n" (the first line  *)
(* as it is, every later one behind a "\n"), empty lines included, and     *)
(* they are the pending replacement text; the closing marker splices       *)
(* exactly that text into the buffer.                                      *)
(***************************************************************************)
RECURSIVE concat(_)
concat(texts) == IF texts = <<>> THEN <<>> ELSE Head(texts) \o concat(Tail(texts))

\* the Delta texts sent since the last Started
open_delta_texts ==
    LET s == last_started(sender, Len(sender) + 1)
    IN  [j \in 1..(Len(sender) - s) |-> sender[s + j].text]

\* the last m lines handed to the transition table
last_processed_lines(m) ==
    SubSeq(lines(answer_up_until_now), lines_processed - m + 1, lines_processed)

C12_OpenBlockText ==
    search_block_status.tag = "BlockFound"
    => LET texts == open_delta_texts
       IN  /\ concat(texts) = join(last_processed_lines(Len(texts)), <<NL>>)
           /\ updated_block = IF texts = <<>> THEN None ELSE Some(concat(texts))

C12_SplicedAtClose ==
    (/\ search_block_status.tag = "BlockFound"
     /\ DeliversLine(updated)
     /\ open_delta_texts # <<>>)
    => code_lines' = splice_code_lines(code_lines, start_line, search_block_status.range,
                                       concat(open_delta_texts))

C12_DeltasAreReplacement ==
    /\ [](C12_OpenBlockText)
    /\ [][C12_SplicedAtClose]_vars

\* a block closed after the three Deltas "    return 2", "\n", "\n    return 3"
C12_Witness ==
    /\ Len(sender) = 5
    /\ sender[2].type = "EditDelta" /\ sender[2].text = Return2
    /\ sender[3].type = "EditDelta" /\ sender[3].text = <<NL>>
    /\ sender[4].type = "EditDelta" /\ sender[4].text = <<NL>> \o Return3
    /\ sender[5].type = "EditEnd"

(***************************************************************************)
(* C13  Only lines terminated by "\n" drive the accumulator: its status,   *)
(* buffer, pending replacement, events and line counter are those of the   *)
(* answer cut behind its last "\n"; the text after the last "\n" is not    *)
(* compared with a marker and not used as content.                         *)
(***************************************************************************)
\* the answer up to and including its last "\n"
terminated_prefix(s) ==
    LET newlines == {i \in 1..Len(s) : s[i] = NL}
    IN  IF newlines = {} THEN <<>>
        ELSE SubSeq(s, 1, CHOOSE i \in newlines : \A j \in newlines : j <= i)

\* the text after the last "\n"
unterminated_tail(s) == SubSeq(s, Len(terminated_prefix(s)) + 1, Len(s))

C13_OnlyTerminatedLines ==
    /\ lines_processed <= Len(lines(terminated_prefix(answer_up_until_now)))
    /\ Self = [add_delta(new(code_to_edit, start_line),
                         terminated_prefix(answer_up_until_now))
                  EXCEPT !.answer_up_until_now = answer_up_until_now]

\* the closing marker has arrived without its "\n" and the block is still open
C13_Witness ==
    /\ unterminated_tail(answer_up_until_now) = updated
    /\ search_block_status.tag = "BlockFound"
    /\ updated_block # None
    /\ sender[Len(sender)].type = "EditDelta"

(***************************************************************************)
(* C14  The range of a block is fixed when its Started is sent: every      *)
(* Delta and the Ended of the block carry that range, and the range the    *)
(* accumulator holds for the open block is that range until the block is   *)
(* closed.                                                                 *)
(***************************************************************************)
C14_CarriesStartedRange ==
    \A j \in 1..Len(sender) :
        sender[j].type # "EditStarted"
        => /\ last_started(sender, j) # 0
           /\ sender[j].range = sender[last_started(sender, j)].range

C14_HeldRangeIsStartedRange ==
    search_block_status.tag = "BlockFound"
    => /\ last_started(sender, Len(sender) + 1) # 0
       /\ search_block_status.range = sender[last_started(sender, Len(sender) + 1)].range

C14_RangeUnchangedInBlock ==
    (search_block_status.tag = "BlockFound" /\ search_block_status'.tag = "BlockFound")
    => search_block_status'.range = search_block_status.range

C14_RangeImmutable ==
    /\ [](C14_CarriesStartedRange /\ C14_HeldRangeIsStartedRange)
    /\ [][C14_RangeUnchangedInBlock]_vars

\* a block of three replacement lines is closed, five events with one range
C14_Witness ==
    /\ Len(sender) = 5
    /\ sender[1] = EditStarted(Range(11, 11))
    /\ sender[4].type = "EditDelta" /\ sender[4].range = Range(11, 11)
    /\ sender[5] = EditEnd(Range(11, 11))

(***************************************************************************)
(* C15  The step in which the loop takes the terminal future is the step   *)
(* in which invoke returns: it receives no message of the delta channel    *)
(* and no edit event, and what is queued in either channel at that moment  *)
(* is never fed to the accumulator and never forwarded to the UI sink.     *)
(***************************************************************************)
\* the edit events sent by the accumulator and not yet received by the loop
queued_edits == SubSeq(sender, edits_taken + 1, Len(sender))

\* the loop takes the terminal future in this step
TakesTerminal == stream_result = None /\ stream_result' # None

C15_ExitOnTerminal ==
    /\ TakesTerminal
        => /\ invoke_result = None /\ invoke_result' # None
           /\ UNCHANGED <<receiver, edits_taken, ui_sender, acc_vars>>
    /\ invoke_result # None
        => UNCHANGED <<receiver, edits_taken, ui_sender, acc_vars, invoke_result>>

C15_ExitsWithoutDraining == [][C15_ExitOnTerminal]_vars

\* invoke has returned with a delta and the Ended of an open block queued
C15_Witness ==
    /\ invoke_result # None
    /\ receiver # <<>>
    /\ queued_edits # <<>>
    /\ queued_edits[Len(queued_edits)].type = "EditEnd"
    /\ ui_sender # <<>>

(***************************************************************************)
(* C16  Scenario C: when the completion has resolved with an error while   *)
(* the accumulator is in BlockFound, the loop ends and invoke returns the  *)
(* error; the step that takes the error returns it whatever the state of   *)
(* the block, without an Ended and without further deltas.                 *)
(***************************************************************************)
FailedInOpenBlock ==
    /\ Running
    /\ llm_response.state = "Ready" /\ ~llm_response.result.ok
    /\ search_block_status.tag = "BlockFound"

C16_ErrorTakenAtOnce ==
    (TakesTerminal /\ ~llm_response.result.ok)
    => /\ invoke_result' = Some(Err("RetriesExhausted"))
       /\ UNCHANGED <<acc_vars, receiver, edits_taken, ui_sender>>

C16_ErrorEndsOpenBlock ==
    /\ [][C16_ErrorTakenAtOnce]_vars
    /\ FailedInOpenBlock ~> (invoke_result = Some(Err("RetriesExhausted")) \/ panicked)

\* Scenario C: invoke has returned the error, the block is still open and no
\* Ended was ever sent
C16_Witness ==
    /\ answer_up_until_now = render(ScenarioC)
    /\ search_block_status.tag = "BlockFound"
    /\ \A j \in 1..Len(sender) : sender[j].type # "EditEnd"
    /\ invoke_result = Some(Err("RetriesExhausted"))

(***************************************************************************)
(* C17  If the completion never resolves, and the delta channel is closed  *)
(* and drained and every edit event is forwarded, the invocation is still  *)
(* ended in the end: invoke returns (a failure) or the task is aborted.    *)
(***************************************************************************)
\* nothing is left to receive and the completion is not resolved
QuietAndUnresolved ==
    /\ llm_response = Pending
    /\ receiver_closed /\ receiver = <<>>
    /\ queued_edits = <<>>

C17_NonResolutionAborts ==
    <>[]QuietAndUnresolved => <>(invoke_result # None \/ panicked)

(***************************************************************************)
(* C18  The result of invoke is decided by the terminal future alone: once *)
(* returned it is Ok with the future's text when the future resolved with  *)
(* Ok and Err(RetriesExhausted) when it resolved with an error; and no     *)
(* block of the stream, unresolved, malformed or unfinished, makes an      *)
(* invocation fail whose completion has resolved successfully.             *)
(***************************************************************************)
C18_ResultFollowsFuture ==
    invoke_result # None
    => /\ llm_response.state = "Ready"
       /\ stream_result = Some(llm_response.result)
       /\ invoke_result[1] = IF llm_response.result.ok
                             THEN Ok(llm_response.result.response)
                             ELSE Err("RetriesExhausted")
       /\ llm_response.result.ok
            => llm_response.result.response
                 = answer_up_until_now \o deltas_text(receiver)

C18_SuccessNeverFails ==
    (llm_response.state = "Ready" /\ llm_response.result.ok)
    => /\ ~panicked
       /\ invoke_result # None => invoke_result[1].ok

C18_ResultByFutureAlone == C18_ResultFollowsFuture /\ C18_SuccessNeverFails

(***************************************************************************)
(* C19  UI fence protocol: receiving Started(r) the loop sends a start     *)
(* message for r and next a delta message for r with the opening fence;    *)
(* receiving Ended(r) it sends a delta message for r with the closing      *)
(* fence and next an end message for r.  So in the UI sink every start is  *)
(* directly followed by its opening fence and every end directly preceded  *)
(* by its closing fence.                                                   *)
(***************************************************************************)
\* the loop receives the next edit event in this step
ReceivesEdit == edits_taken' = edits_taken + 1

C19_FenceOnReceive ==
    ReceivesEdit
    => LET ev == sender[edits_taken + 1]
           sent == SubSeq(ui_sender', Len(ui_sender) + 1, Len(ui_sender'))
       IN  /\ SubSeq(ui_sender', 1, Len(ui_sender)) = ui_sender
           /\ ev.type = "EditStarted"
                => sent = <<[kind |-> "start", range |-> ev.range],
                            [kind |-> "delta", range |-> ev.range,
                             delta |-> <<BACKTICK, BACKTICK, BACKTICK, NL>>]>>
           /\ ev.type = "EditEnd"
                => sent = <<[kind |-> "delta", range |-> ev.range,
                             delta |-> <<NL, BACKTICK, BACKTICK, BACKTICK>>],
                            [kind |-> "end", range |-> ev.range]>>

C19_FencesAdjacent ==
    \A j \in 1..Len(ui_sender) :
        /\ ui_sender[j].kind = "start"
            => /\ j < Len(ui_sender)
               /\ ui_sender[j + 1] = [kind |-> "delta", range |-> ui_sender[j].range,
                                       delta |-> <<BACKTICK, BACKTICK, BACKTICK, NL>>]
        /\ ui_sender[j].kind = "end"
            => /\ j > 1
               /\ ui_sender[j - 1] = [kind |-> "delta", range |-> ui_sender[j].range,
                                       delta |-> <<NL, BACKTICK, BACKTICK, BACKTICK>>]

C19_FenceProtocol ==
    /\ [](C19_FencesAdjacent)
    /\ [][C19_FenceOnReceive]_vars

\* Scenario A forwarded whole: start, opening fence, the Delta, closing fence,
\* end, all for (11, 11)
C19_Witness ==
    /\ Len(ui_sender) = 5
    /\ ui_sender[1].kind = "start" /\ ui_sender[1].range = Range(11, 11)
    /\ ui_sender[3].delta = Return2
    /\ ui_sender[5].kind = "end" /\ ui_sender[5].range = Range(11, 11)

(***************************************************************************)
(* C20  At every moment the messages in the UI sink, read back as edit     *)
(* events (a start as Started, an end as Ended, a delta other than a fence *)
(* as Delta with its text and range), are a prefix of the events the       *)
(* accumulator sent: nothing twice, reordered, invented or altered.  And   *)
(* the accumulator is fed the deltas of the channel oldest first, each     *)
(* appended unchanged.                                                     *)
(***************************************************************************)
\* the delta message at j is a fence: it follows a start or precedes an end
is_fence(ui, j) ==
    /\ ui[j].kind = "delta"
    /\ \/ j > 1 /\ ui[j - 1].kind = "start"
       \/ j < Len(ui) /\ ui[j + 1].kind = "end"

event_of(message) ==
    CASE message.kind = "start" -> EditStarted(message.range)
      [] message.kind = "delta" -> EditDelta(message.range, message.delta)
      [] message.kind = "end" -> EditEnd(message.range)

\* the UI messages without the fences, each read back as an edit event
events_of(ui) ==
    LET kept == {j \in 1..Len(ui) : ~is_fence(ui, j)}
        nth(k) == CHOOSE j \in kept : Cardinality({i \in kept : i <= j}) = k
    IN  [k \in 1..Cardinality(kept) |-> event_of(ui[nth(k)])]

\* every start and end has its fence, so the count of fences is right
fences_complete(ui) ==
    Cardinality({j \in 1..Len(ui) : is_fence(ui, j)})
        = Cardinality({j \in 1..Len(ui) : ui[j].kind \in {"start", "end"}})

C20_SinkIsPrefixImage ==
    LET forwarded == events_of(ui_sender)
    IN  /\ Len(forwarded) <= Len(sender)
        /\ forwarded = SubSeq(sender, 1, Len(forwarded))
        /\ fences_complete(ui_sender)

C20_FedOldestFirst ==
    /\ answer_up_until_now' # answer_up_until_now
        => /\ receiver # <<>> /\ Head(receiver) # None
           /\ answer_up_until_now' = answer_up_until_now \o Head(receiver)[1]
           /\ receiver' = Tail(receiver)
    /\ Len(receiver') < Len(receiver) => receiver' = Tail(receiver)

C20_ForwardingInOrder ==
    /\ [](C20_SinkIsPrefixImage)
    /\ [][C20_FedOldestFirst]_vars

\* a whole block is forwarded while events of the next block wait, and the
\* accumulator has been fed while two messages wait in the delta channel
C20_Witness ==
    /\ Len(events_of(ui_sender)) >= 3
    /\ Len(events_of(ui_sender)) + 2 <= Len(sender)
    /\ Len(receiver) >= 2
    /\ answer_up_until_now # <<>>

(***************************************************************************)
(* C21  A closing marker line has an effect only in BlockFound: read in    *)
(* NoBlock, BlockStart or BlockAccumulate it sends no event, leaves the    *)
(* buffer and the pending replacement unchanged and does not panic; and no *)
(* Ended is ever sent without a Started before it that is not yet ended.   *)
(***************************************************************************)
C21_CloseOutsideBlock ==
    (DeliversLine(updated) /\ search_block_status.tag # "BlockFound")
    => /\ sender' = sender
       /\ code_lines' = code_lines
       /\ updated_block' = updated_block
       /\ ~panicked'
       /\ search_block_status'.tag # "BlockFound"

C21_EndedHasBlock ==
    \A j \in 1..Len(sender) : sender[j].type = "EditEnd" => open_before(sender, j)

C21_CloseOnlyInBlockFound ==
    /\ [](C21_EndedHasBlock)
    /\ [][C21_CloseOutsideBlock]_vars

\* closing markers were read in NoBlock, in BlockStart and in BlockAccumulate,
\* and nothing was sent
C21_Witness ==
    /\ answer_up_until_now = render(<<updated, head, updated, updated>>)
    /\ search_block_status = BlockAccumulate(updated \o <<NL>> \o updated)
    /\ sender = <<>>
    /\ code_lines = OriginalBuffer

(***************************************************************************)
(* C22  A block with an empty SEARCH section is recognised: the divider    *)
(* read directly after the head ends the search section, so it is not      *)
(* taken as search text, and the lines up to the closing marker are not    *)
(* appended to the search text.                                            *)
(***************************************************************************)
C22_DividerAfterHead ==
    (search_block_status.tag = "BlockStart" /\ DeliversLine(divider))
    => search_block_status'.tag # "BlockAccumulate"

C22_EmptySearchRecognised == [][C22_DividerAfterHead]_vars

(***************************************************************************)
(* C23  A block replaces all matching occurrences: when the search text of *)
(* the one block of the answer matches several disjoint windows of the     *)
(* buffer (and the replacement does not hold the search text), then after  *)
(* the block closes no window of the buffer holds the search text.         *)
(***************************************************************************)
\* some two windows of buf equal to cand do not overlap
disjoint_occurrences(buf, cand) ==
    \E i, j \in occurrences(buf, cand) : i + Len(cand) <= j

C23_ReplacesAllOccurrences ==
    (/\ StreamIsScript /\ Len(script) = 1 /\ plain(script[1])
     /\ script[1].repl # <<>>
     /\ ~occurs(script[1].repl, script[1].search)
     /\ disjoint_occurrences(OriginalBuffer, script[1].search)
     /\ pending = <<>>)
    => ~occurs(code_lines, script[1].search)

(***************************************************************************)
(* C24  Every newline-terminated line of the answer is handed to the       *)
(* transition table exactly once and in stream order: the line counter     *)
(* never decreases, after every add_delta that returns it is the number of *)
(* newlines of the answer less one (None while there is no newline), a     *)
(* delta without a newline makes no transition and sends no event, and a   *)
(* delta that completes one line makes the one transition of that line.    *)
(***************************************************************************)
newline_count(s) == Cardinality({i \in 1..Len(s) : s[i] = NL})

C24_CounterIsNewlines ==
    ~panicked
    => previous_answer_line_number =
         IF newline_count(answer_up_until_now) = 0 THEN None
         ELSE Some(newline_count(answer_up_until_now) - 1)

C24_StepByLine ==
    /\ lines_processed' >= lines_processed
    /\ (/\ answer_up_until_now' # answer_up_until_now
        /\ newline_count(answer_up_until_now') = newline_count(answer_up_until_now))
        => UNCHANGED <<code_lines, previous_answer_line_number, search_block_status,
                       updated_block, sender, panicked>>
    /\ DeliversOneLine
        => Self' = process_line([Self EXCEPT !.answer_up_until_now = answer_up_until_now'],
                                lines_processed, last_line(answer_up_until_now'))

C24_EachLineOnce ==
    /\ [](C24_CounterIsNewlines)
    /\ [][C24_StepByLine]_vars

\* a delta that ended inside a line was followed by the rest of the line, and
\* two blocks are through
C24_Witness ==
    /\ cut_inside_line
    /\ pending = <<>>
    /\ previous_answer_line_number = Some(9)
    /\ Len(sender) = 6

(***************************************************************************)
(* C25  A block that closes in BlockFound without any replacement line     *)
(* (empty REPLACE section, a deletion) is still patched: the lines of the  *)
(* resolved range are removed from the buffer.                             *)
(***************************************************************************)
C25_DeletionStep ==
    (/\ search_block_status.tag = "BlockFound"
     /\ updated_block = None
     /\ DeliversLine(updated))
    => /\ code_lines' = replace_range(code_lines, search_block_status.range, <<>>)
       /\ code_lines' # code_lines

C25_EmptyReplaceDeletes == [][C25_DeletionStep]_vars

(***************************************************************************)
(* C26  The range of a resolved block spans exactly as many lines as the   *)
(* search section had, and every buffer line in the range equals the       *)
(* search line at its place; a search section that ends in an empty line   *)
(* resolves only onto an empty buffer line there, inside the range.        *)
(***************************************************************************)
C26_ResolveStep ==
    (/\ search_block_status.tag = "BlockAccumulate"
     /\ DeliversLine(divider)
     /\ search_block_status'.tag = "BlockFound")
    => LET search_lines == split_nl(search_block_status.acc)
           range == search_block_status'.range
       IN  /\ range.end_line - range.start_line + 1 = Len(search_lines)
           /\ range_inside(code_lines, range)
           /\ SubSeq(code_lines, range.start_line - start_line + 1,
                      range.end_line - start_line + 1) = search_lines

C26_RangeIsSearchSection == [][C26_ResolveStep]_vars

(***************************************************************************)
(* C27  In NoBlock a line that is not exactly the head is discarded: the   *)
(* status stays NoBlock, buffer and pending replacement are unchanged and  *)
(* no event is sent; a line that is exactly the head moves the status to   *)
(* BlockStart and changes nothing else.                                    *)
(***************************************************************************)
C27_NoBlockStep ==
    (search_block_status.tag = "NoBlock" /\ DeliversOneLine)
    => /\ search_block_status' =
            IF last_line(answer_up_until_now') = head THEN BlockStart ELSE NoBlock
       /\ UNCHANGED <<code_lines, start_line, updated_block, sender, panicked>>

C27_NoBlockFrame == [][C27_NoBlockStep]_vars

\* the head followed by a space and a divider were discarded, then the head
\* opened a block
C27_Witness ==
    /\ answer_up_until_now = render(<<HeadSpace, divider, head>>)
    /\ search_block_status = BlockStart
    /\ sender = <<>>
    /\ code_lines = OriginalBuffer

(***************************************************************************)
(* C28  While a block is in flight a marker that is not the expected next  *)
(* one is content: a head or divider line read in BlockFound is sent as a  *)
(* Delta of the current range and appended to the pending replacement, the *)
(* block staying open with its range; a head or closing marker line read   *)
(* in BlockAccumulate is appended to the search text and nothing is sent.  *)
(***************************************************************************)
C28_MarkerInBlockFound ==
    \A l \in {head, divider} :
        (search_block_status.tag = "BlockFound" /\ DeliversLine(l))
        => LET fragment == IF updated_block = None THEN l ELSE <<NL>> \o l
           IN  /\ search_block_status' = search_block_status
               /\ sender' = Append(sender, EditDelta(search_block_status.range, fragment))
               /\ updated_block' =
                    Some((IF updated_block = None THEN <<>> ELSE updated_block[1])
                         \o fragment)
               /\ code_lines' = code_lines

C28_MarkerInBlockAccumulate ==
    \A l \in {head, updated} :
        (search_block_status.tag = "BlockAccumulate" /\ DeliversLine(l))
        => /\ search_block_status' =
                BlockAccumulate(search_block_status.acc \o <<NL>> \o l)
           /\ UNCHANGED <<code_lines, updated_block, sender, panicked>>

C28_MarkersAreContent ==
    [][C28_MarkerInBlockFound /\ C28_MarkerInBlockAccumulate]_vars

\* in the open block (5, 5) a head and a divider were read: two Deltas, no
\* second Started
C28_Witness ==
    /\ search_block_status.tag = "BlockFound"
    /\ sender = <<EditStarted(Range(5, 5)),
                  EditDelta(Range(5, 5), head),
                  EditDelta(Range(5, 5), <<NL>> \o divider)>>
    /\ updated_block = Some(head \o <<NL>> \o divider)

(***************************************************************************)
(* C29  Fair fan-in: while the completion has not resolved, every message  *)
(* in the delta channel is received in the end and every event the         *)
(* accumulator sent is forwarded in the end, also when the delta channel   *)
(* is closed.                                                              *)
(***************************************************************************)
C29_FairFanIn ==
    /\ receiver # <<>> ~> (receiver = <<>> \/ llm_response # Pending)
    /\ queued_edits # <<>> ~> (queued_edits = <<>> \/ llm_response # Pending)

(***************************************************************************)
(* C30  invoke returns only through the terminal future: a result appears  *)
(* only in a step that takes the resolved future, and while the delta      *)
(* channel is closed and drained and the future is pending no step ends    *)
(* the loop, produces a result or changes the accumulator (no flush).      *)
(***************************************************************************)
ClosedAndPending ==
    /\ receiver_closed /\ receiver = <<>>
    /\ llm_response = Pending

C30_ReturnStep ==
    /\ invoke_result' # invoke_result
        => /\ llm_response.state = "Ready"
           /\ stream_result' = Some(llm_response.result)
    /\ ClosedAndPending
        => UNCHANGED <<acc_vars, stream_result, invoke_result>>

ReturnedOk == invoke_result # None /\ invoke_result[1].ok

ui_kind_count(kind) ==
    Cardinality({j \in 1..Len(ui_sender) : ui_sender[j].kind = kind})

C31_OkMeansAllDelivered ==
    ReturnedOk
    => /\ receiver = <<>>
       /\ queued_edits = <<>>
       /\ search_block_status.tag # "BlockFound"
            => ui_kind_count("start") = ui_kind_count("end")

(***************************************************************************)
(* C31, as the loop behaves: when invoke has returned Ok the returned text *)
(* is what the accumulator was fed followed by the deltas still in the     *)
(* channel, which are never fed, and the UI sink holds the image of a      *)
(* prefix of the events sent; deltas and events may be left over, and a    *)
(* start message may be left without its end message.                      *)
(***************************************************************************)
C31_OkLeavesQueuesBehind ==
    ReturnedOk
    => /\ invoke_result[1].response = answer_up_until_now \o deltas_text(receiver)
       /\ pending = <<>>
       /\ edits_taken <= Len(sender)
       /\ events_of(ui_sender) = SubSeq(sender, 1, edits_taken)

\* Scenario A returned Ok whole, with the start message and the Delta in the
\* sink, the Ended never forwarded and the closing marker never fed
C31_Witness ==
    /\ ReturnedOk
    /\ invoke_result[1].response = render(script_lines(ScenarioA))
    /\ receiver # <<>>
    /\ ui_kind_count("start") = 1
    /\ ui_kind_count("end") = 0

(***************************************************************************)
(* C32  Processing a divider never aborts the accumulator: a search        *)
(* section that is a single empty line (the accumulated search text is the *)
(* empty string) gives a found block with a range inside the buffer or an  *)
(* unresolved block, for every buffer.                                     *)
(***************************************************************************)
C32_EmptyLineStep ==
    (/\ search_block_status = BlockAccumulate(<<>>)
     /\ DeliversLine(divider))
    => /\ ~panicked'
       /\ \/ search_block_status' = NoBlock
          \/ /\ search_block_status'.tag = "BlockFound"
             /\ range_inside(code_lines, search_block_status'.range)

C32_DividerNeverAborts == [][C32_EmptyLineStep]_vars

(***************************************************************************)
(* C33  When the last line of the stream is the closing marker without its *)
(* "\n" and no further delta arrives, the open block is never closed: the  *)
(* accumulator stays in BlockFound, no Ended is sent and the buffer is not *)
(* patched, also after the delta channel is closed.                        *)
(***************************************************************************)
\* the accumulator holds an open block and an unterminated closing marker,
\* and no delta is left to arrive
UnterminatedClose ==
    /\ pending = <<>> /\ deltas_text(receiver) = <<>>
    /\ unterminated_tail(answer_up_until_now) = updated
    /\ search_block_status.tag = "BlockFound"

C33_StaysOpen ==
    UnterminatedClose
    => /\ UnterminatedClose'
       /\ UNCHANGED <<search_block_status, sender, code_lines, updated_block>>

C34_EmittedRangesWellFormed ==
    /\ \A j \in 1..Len(sender) :
           /\ start_line <= sender[j].range.start_line
           /\ sender[j].range.start_line <= sender[j].range.end_line
           /\ sender[j].type # "EditStarted"
                => /\ last_started(sender, j) # 0
                   /\ sender[j].range = sender[last_started(sender, j)].range
    /\ search_block_status.tag = "BlockFound"
         => /\ range_inside(code_lines, search_block_status.range)
            /\ sender # <<>>
            /\ sender[Len(sender)].range = search_block_status.range

\* an open block at anchor 5 whose range ends on the last line of the
\* buffer, with a replacement line already emitted
C34_Witness ==
    /\ search_block_status.tag = "BlockFound"
    /\ start_line = 5
    /\ search_block_status.range.end_line = start_line + Len(code_lines) - 1
    /\ sender[Len(sender)].type = "EditDelta"

(***************************************************************************)
(* C35  The buffer is modified only by the transition that processes the   *)
(* closing marker in BlockFound, and the anchor is never modified: a step  *)
(* that changes the buffer emits an Ended event, a step of one line that   *)
(* changes the buffer is the closing marker arriving in BlockFound and     *)
(* emits exactly one Ended, and a buffer that differs from the original    *)
(* has at least one Ended behind it.                                       *)
(***************************************************************************)
ended(evs) == Cardinality({j \in 1..Len(evs) : evs[j].type = "EditEnd"})

C35_BufferStep ==
    /\ start_line' = start_line
    /\ code_lines' # code_lines => ended(sender') > ended(sender)
    /\ (DeliversOneLine /\ code_lines' # code_lines)
         => /\ search_block_status.tag = "BlockFound"
            /\ last_line(answer_up_until_now') = updated
            /\ search_block_status' = NoBlock
            /\ ended(sender') = ended(sender) + 1

C35_OnlyCloseModifiesBuffer ==
    /\ [](code_lines # OriginalBuffer => ended(sender) >= 1)
    /\ [][C35_BufferStep]_vars

\* two blocks have closed on the scenario buffer and both changed it
C35_Witness ==
    /\ code_to_edit = ScenarioCode
    /\ ended(sender) = 2
    /\ search_block_status = NoBlock
    /\ Len(code_lines) # Len(OriginalBuffer)

(***************************************************************************)
(* C36  The pending replacement updated_block is None whenever the status  *)
(* is NoBlock, BlockStart or BlockAccumulate; it is Some only in           *)
(* BlockFound after at least one replacement line, that is when the last   *)
(* event sent is a Delta, and it is None right after the Started event.    *)
(***************************************************************************)
C36_PendingOnlyInOpenBlock ==
    /\ search_block_status.tag # "BlockFound" => updated_block = None
    /\ search_block_status.tag = "BlockFound"
         => (updated_block # None <=> sender[Len(sender)].type = "EditDelta")

\* the second block of the scenario is open with no replacement line yet,
\* after the first block closed with a replacement
C36_Witness ==
    /\ search_block_status.tag = "BlockFound"
    /\ updated_block = None
    /\ ended(sender) = 1
    /\ \E j \in 1..Len(sender) : sender[j].type = "EditDelta"

====
